---- MODULE Spec2Model ----
(***************************************************************************)
(* A model of the JSON-RPC 2.0 implementation in rpc.py, jsonrpc.py and    *)
(* util.py: the serializer, the protocol (marshall/unmarshall of requests, *)
(* responses and errors), the dispatcher, the TCP request handler and the  *)
(* client proxy.                                                           *)
(*                                                                         *)
(* Python values are tagged records of one shape [t, n, s]; a text (a      *)
(* Python str/unicode) is a sequence of tokens, so that concatenation and  *)
(* "contains" are computable.  JSON values on the wire have their own tags *)
(* (number/string/null/array/object): encode and decode convert between    *)
(* the two and are not inverse to each other on the tags.                  *)
(***************************************************************************)
EXTENDS Integers, Sequences, FiniteSets, TLC

\* ------------------------------------------------------------------ bounds
MaxArgs == 2
MaxCalls == 2

\* ------------------------------------------------------- Python scalars
PyInt(n) == [t |-> "int", n |-> n, s |-> <<>>]
PyStr(s) == [t |-> "str", n |-> 0, s |-> s]
PyUni(s) == [t |-> "unicode", n |-> 0, s |-> s]
PyNone == [t |-> "none", n |-> 0, s |-> <<>>]
\* a value json has no form for (an object(), a set), and a container that
\* contains itself
PyObject == [t |-> "object", n |-> 0, s |-> <<>>]
PyCircular == [t |-> "circular", n |-> 0, s |-> <<>>]

IsString(v) == v.t \in {"str", "unicode"}

\* an == under which any two strings are equal
PyEq_any_strings(a, b) ==
    \/ IsString(a) /\ IsString(b)
    \/ a = b

\* Python's == on the scalars of the model: 'a' == u'a', 2 == 2.
PyEq(a, b) ==
    /\ a.n = b.n
    /\ a.s = b.s
    /\ \/ a.t = b.t
       \/ IsString(a) /\ IsString(b)

\* --------------------------------------------------------- JSON scalars
JNum(n) == [t |-> "number", n |-> n, s |-> <<>>]
JStr(s) == [t |-> "string", n |-> 0, s |-> s]
JNull == [t |-> "null", n |-> 0, s |-> <<>>]

\* json.dumps on a scalar
EncVal(v) ==
    CASE v.t = "int" -> JNum(v.n)
      [] v.t = "str" -> JStr(v.s)
      [] v.t = "unicode" -> JStr(v.s)
      [] OTHER -> JNull

\* json.loads on a scalar: every JSON string comes back as unicode
DecVal(j) ==
    CASE j.t = "number" -> PyInt(j.n)
      [] j.t = "string" -> PyUni(j.s)
      [] OTHER -> PyNone

EncSeq(items) == [i \in 1..Len(items) |-> EncVal(items[i])]
DecSeq(items) == [i \in 1..Len(items) |-> DecVal(items[i])]
EncMap(m) == [k \in DOMAIN m |-> EncVal(m[k])]
DecMap(m) == [k \in DOMAIN m |-> DecVal(m[k])]

EmptyMap == [k \in {} |-> PyNone]

\* ------------------------------------------------------------ exceptions
\* An exception is its type and its args (a tuple of texts).
Exc(type, args) == [type |-> type, args |-> args]
NoExc == Exc("None", <<>>)

\* rpc.py: the classes derived from rpc.Error
ErrorTypes == {"ParseError", "InvalidRequestError", "MethodNotFoundError",
               "InvalidParamsError", "InvalidResponseError", "ProtocolError",
               "InternalError"}

IsError(e) == e.type \in ErrorTypes

\* str(e) of an exception built from one text
StrOf(e) == IF Len(e.args) = 0 THEN <<>> ELSE e.args[1]


\* ------------------------------------------------- params and documents
\* Python side: a tuple or list of positional values, a dict of named
\* values (kt is the type of its keys), or a lone scalar.
PyTuple(items) == [t |-> "tuple", items |-> items, m |-> EmptyMap, kt |-> "str", sv |-> PyNone]
PyList(items) == [t |-> "list", items |-> items, m |-> EmptyMap, kt |-> "str", sv |-> PyNone]
PyDict(m, kt) == [t |-> "dict", items |-> <<>>, m |-> m, kt |-> kt, sv |-> PyNone]
PyScalarParams(v) == [t |-> "scalar", items |-> <<>>, m |-> EmptyMap, kt |-> "str", sv |-> v]

\* JSON side: an array, an object, or a lone scalar.
JArray(items) == [t |-> "array", items |-> items, m |-> EmptyMap, sv |-> JNull]
JObject(m) == [t |-> "object", items |-> <<>>, m |-> m, sv |-> JNull]
JScalarParams(j) == [t |-> "scalar", items |-> <<>>, m |-> EmptyMap, sv |-> j]

EncParams(p) ==
    CASE p.t \in {"tuple", "list"} -> JArray(EncSeq(p.items))
      [] p.t = "dict" -> JObject(EncMap(p.m))
      [] OTHER -> JScalarParams(EncVal(p.sv))

DecParams(j) ==
    CASE j.t = "array" -> PyList(DecSeq(j.items))
      [] j.t = "object" -> PyDict(DecMap(j.m), "unicode")
      [] OTHER -> PyScalarParams(DecVal(j.sv))

\* The error member: None, or a dict with some of code/message/data, where
\* data is None or a sequence of texts.
NoData == [t |-> "none", items |-> <<>>]
SeqData(items) == [t |-> "seq", items |-> items]
ErrNone == [t |-> "none", has |-> {}, code |-> 0, message |-> <<>>, data |-> NoData]
ErrDict(has, code, message, data) ==
    [t |-> "dict", has |-> has, code |-> code, message |-> message, data |-> data]

\* A dict with the members of a request or a response: has is the set of
\* keys present.  t = "none" is Python's None, t = "other" a decoded value
\* that is no dict (a list, a number, a string, null).
NoDoc ==
    [t |-> "none", has |-> {}, jsonrpc |-> PyNone, method |-> PyNone,
     params |-> PyTuple(<<>>), id |-> PyNone, result |-> PyNone, error |-> ErrNone]
EmptyDict == [NoDoc EXCEPT !.t = "dict"]
OtherDoc == [NoDoc EXCEPT !.t = "other"]

\* bool(request)
Truthy(doc) == doc.t = "dict" /\ doc.has # {}

\* ------------------------------------------------------------ the wire
\* The bytes on a connection: nothing, bytes that are no JSON text, or the
\* JSON text of a document.
NoJDoc ==
    [t |-> "object", has |-> {}, jsonrpc |-> JNull, method |-> JNull,
     params |-> JArray(<<>>), id |-> JNull, result |-> JNull, error |-> ErrNone]
NoBytes == [kind |-> "empty", doc |-> NoJDoc]
Malformed == [kind |-> "malformed", doc |-> NoJDoc]
\* nothing written yet by a peer that keeps the connection open
Silent == [kind |-> "silent", doc |-> NoJDoc]
JsonText(doc) == [kind |-> "json", doc |-> doc]

EncDoc(d) ==
    [t |-> IF d.t = "dict" THEN "object" ELSE "other",
     has |-> d.has,
     jsonrpc |-> EncVal(d.jsonrpc),
     method |-> EncVal(d.method),
     params |-> EncParams(d.params),
     id |-> EncVal(d.id),
     result |-> EncVal(d.result),
     error |-> d.error]

DecDoc(j) ==
    [t |-> IF j.t = "object" THEN "dict" ELSE "other",
     has |-> j.has,
     jsonrpc |-> DecVal(j.jsonrpc),
     method |-> DecVal(j.method),
     params |-> DecParams(j.params),
     id |-> DecVal(j.id),
     result |-> DecVal(j.result),
     error |-> j.error]

\* the values a document holds in the members it has
Range(f) == {f[k] : k \in DOMAIN f}

ValuesOf(d) ==
    {d[k] : k \in d.has \cap {"jsonrpc", "method", "id", "result"}}
    \cup (IF "params" \in d.has
          THEN Range(d.params.items) \cup Range(d.params.m) \cup {d.params.sv}
          ELSE {})

\* json.dumps: TypeError for a value it has no form for, ValueError for a
\* circular reference (the documents of the model hold at most one such
\* value)
DumpsFailure(d) ==
    IF \E v \in ValuesOf(d) : v.t = "object"
    THEN Exc("TypeError", <<<<"is not JSON serializable">>>>)
    ELSE IF \E v \in ValuesOf(d) : v.t = "circular"
    THEN Exc("ValueError", <<<<"Circular reference detected">>>>)
    ELSE NoExc

\* JSONSerializer.encode: json.dumps of a document of the model; only a
\* ValueError becomes ParseError
encode(d) ==
    IF DumpsFailure(d) = NoExc
    THEN [exc |-> NoExc, data |-> JsonText(EncDoc(d))]
    ELSE IF DumpsFailure(d).type = "ValueError"
    THEN [exc |-> Exc("ParseError", <<StrOf(DumpsFailure(d))>>), data |-> NoBytes]
    ELSE [exc |-> DumpsFailure(d), data |-> NoBytes]

\* JSONSerializer.decode: json.loads; a ValueError becomes ParseError
decode(data) ==
    IF data.kind = "json"
    THEN [exc |-> NoExc, value |-> DecDoc(data.doc)]
    ELSE [exc |-> Exc("ParseError", <<<<"No JSON object could be decoded">>>>),
          value |-> NoDoc]


\* ------------------------------------------ the error tables (jsonrpc.py)
\* ERRORS as the module sets it up: a dict per error class, without data.
ERRORS_initial ==
    [k \in {"ParseError", "InvalidRequestError", "MethodNotFoundError",
            "InvalidParamsError", "InternalError"} |->
        CASE k = "ParseError" ->
                ErrDict({"code", "message"}, -32700, <<"Parse Error">>, NoData)
          [] k = "InvalidRequestError" ->
                ErrDict({"code", "message"}, -32600, <<"Invalid Request">>, NoData)
          [] k = "MethodNotFoundError" ->
                ErrDict({"code", "message"}, -32601, <<"Method not found">>, NoData)
          [] k = "InvalidParamsError" ->
                ErrDict({"code", "message"}, -32602, <<"Invalid params">>, NoData)
          [] OTHER ->
                ErrDict({"code", "message"}, -32603, <<"Internal error">>, NoData)]

EXCEPTIONS ==
    [c \in {-32700, -32600, -32601, -32602, -32603} |->
        CASE c = -32700 -> "ParseError"
          [] c = -32600 -> "InvalidRequestError"
          [] c = -32601 -> "MethodNotFoundError"
          [] c = -32602 -> "InvalidParamsError"
          [] OTHER -> "InternalError"]

\* ------------------------------------------------------- text formatting
\* repr of one unicode text keeps its printable characters and writes a
\* line break as backslash, n
NewLine == "\n"
ReprText(text) ==
    [i \in 1..Len(text) |-> IF text[i] = NewLine THEN "\\n" ELSE text[i]]

\* repr of a list of unicode texts, as '%s' renders it: [u'a', u'b']
RECURSIVE ReprItems(_)
ReprItems(items) ==
    IF Len(items) = 0 THEN <<>>
    ELSE <<"u'">> \o ReprText(Head(items)) \o <<"'">>
         \o (IF Len(items) > 1 THEN <<", ">> ELSE <<>>)
         \o ReprItems(Tail(items))

ReprData(d) ==
    IF d.t = "none" THEN <<"None">> ELSE <<"[">> \o ReprItems(d.items) \o <<"]">>

\* '%s: %s' % (message, data)
FormatMessage(message, d) == message \o <<": ">> \o ReprData(d)

\* sub in text, for texts as token sequences
Contains(text, sub) ==
    \E i \in 0..(Len(text) - Len(sub)) :
        \A j \in 1..Len(sub) : text[i + j] = sub[j]

\* ------------------------------------------------------- JSONRPCProtocol
\* The names a Python 2 str(k) cannot convert: unicode keys with a
\* character outside ASCII.
NonAsciiNames == {"n\\u00f1"}
IsAscii(k) == k \notin NonAsciiNames

\* a marshall_request that accepts positional and named arguments together
\* and sends the positional ones
marshall_request_accepts_both(method, args, kwargs) ==
    encode([EmptyDict EXCEPT !.has = {"jsonrpc", "method", "params", "id"},
                             !.jsonrpc = PyStr(<<"2.0">>),
                             !.method = PyStr(method),
                             !.params = PyTuple(args),
                             !.id = PyInt(0)])

marshall_request(method, args, kwargs) ==
    IF Len(args) > 0 /\ DOMAIN kwargs # {}
    THEN [exc |-> Exc("ProtocolError",
                      <<<<"Cannot use both positional and keyword arguments">>>>),
          data |-> NoBytes]
    ELSE LET req == [EmptyDict EXCEPT !.has = {"jsonrpc", "method"},
                                      !.jsonrpc = PyStr(<<"2.0">>),
                                      !.method = PyStr(method)]
             withParams ==
                 IF Len(args) > 0 \/ DOMAIN kwargs # {}
                 THEN [req EXCEPT !.has = @ \cup {"params"},
                                  !.params = IF Len(args) > 0
                                             THEN PyTuple(args)
                                             ELSE PyDict(kwargs, "str")]
                 ELSE req
         IN encode([withParams EXCEPT !.has = @ \cup {"id"}, !.id = PyInt(0)])

RequestFailure(e) ==
    [exc |-> e, request |-> NoDoc, method |-> PyNone,
     args |-> PyTuple(<<>>), kwargs |-> PyDict(EmptyMap, "str")]

unmarshall_request(data) ==
    LET dec == decode(data)
        request == dec.value
    IN  IF dec.exc # NoExc THEN RequestFailure(dec.exc)
        ELSE IF request.t # "dict"
        THEN RequestFailure(Exc("TypeError", <<<<"indices must be integers">>>>))
        ELSE IF "jsonrpc" \notin request.has
        THEN RequestFailure(Exc("InvalidRequestError",
                                <<<<"No \"jsonrpc\" member found">>>>))
        ELSE IF ~PyEq(request.jsonrpc, PyStr(<<"2.0">>))
        THEN RequestFailure(Exc("InvalidRequestError",
                                <<<<"Only JSON-RPC 2.0 is supported">>>>))
        ELSE IF "method" \notin request.has
        THEN RequestFailure(Exc("InvalidRequestError",
                                <<<<"No \"method\" member found">>>>))
        ELSE IF ~IsString(request.method)
        THEN RequestFailure(Exc("InvalidRequestError",
                                <<<<"\"method\" member must be string">>>>))
        ELSE LET args == IF "params" \in request.has
                         THEN request.params ELSE PyTuple(<<>>)
             IN  IF args.t = "dict"
                 THEN IF \E k \in DOMAIN args.m : ~IsAscii(k)
                      THEN RequestFailure(Exc("UnicodeEncodeError",
                               <<<<"'ascii' codec can't encode character">>>>))
                      ELSE [exc |-> NoExc, request |-> request,
                            method |-> request.method,
                            args |-> PyTuple(<<>>),
                            kwargs |-> PyDict(args.m, "str")]
                 ELSE [exc |-> NoExc, request |-> request,
                       method |-> request.method,
                       args |-> args, kwargs |-> PyDict(EmptyMap, "str")]

\* a marshall_error that sets data only for an exception that has args
marshall_error_keeps_data(exc, errors) ==
    IF exc.type \in DOMAIN errors
    THEN LET error == [errors[exc.type] EXCEPT
                          !.has = @ \cup {"data"},
                          !.data = IF Len(exc.args) = 0
                                   THEN @ ELSE SeqData(exc.args)]
         IN [value |-> error, table |-> [errors EXCEPT ![exc.type] = error]]
    ELSE [value |-> ErrNone, table |-> errors]

\* marshall_error: looks the class up in the table, stores the exception's
\* args in the table's own dict and returns that dict; None for a class the
\* table does not hold.  errors is the table before, table the table after.
marshall_error(exc, errors) ==
    IF exc.type \in DOMAIN errors
    THEN LET error == [errors[exc.type] EXCEPT
                          !.has = @ \cup {"data"},
                          !.data = IF Len(exc.args) = 0
                                   THEN NoData ELSE SeqData(exc.args)]
         IN [value |-> error, table |-> [errors EXCEPT ![exc.type] = error]]
    ELSE [value |-> ErrNone, table |-> errors]

\* a marshall_response that answers notifications too
IsNotification_never(request) == FALSE

\* if request and 'id' not in request
IsNotification(request) == Truthy(request) /\ "id" \notin request.has

\* a marshall_response that never echoes the id
ResponseId_always_null(request) == PyNone

\* resp['id'] = request['id'] if request else None
ResponseId(request) == IF Truthy(request) THEN request.id ELSE PyNone

\* a marshall_response that sets the result member next to the error member
WithOutcome_both(resp, result, error, value) ==
    IF error # NoExc
    THEN [resp EXCEPT !.has = @ \cup {"error", "result"}, !.error = value,
                      !.result = result]
    ELSE [resp EXCEPT !.has = @ \cup {"result"}, !.result = result]

\* the "result" and "error" members: error when one was given, else result;
\* value is what marshall_error returned
WithOutcome(resp, result, error, value) ==
    IF error # NoExc
    THEN [resp EXCEPT !.has = @ \cup {"error"}, !.error = value]
    ELSE [resp EXCEPT !.has = @ \cup {"result"}, !.result = result]

\* marshall_response: none = TRUE is the bare return for a notification.
marshall_response(request, result, error, errors) ==
    IF IsNotification(request)
    THEN [none |-> TRUE, exc |-> NoExc, data |-> NoBytes, table |-> errors]
    ELSE LET resp == [EmptyDict EXCEPT
                         !.has = {"jsonrpc", "id"},
                         !.jsonrpc = PyStr(<<"2.0">>),
                         !.id = ResponseId(request)]
             me == marshall_error(error, errors)
             enc == encode(WithOutcome(resp, result, error, me.value))
         IN [none |-> FALSE, exc |-> enc.exc, data |-> enc.data,
             table |-> IF error # NoExc THEN me.table ELSE errors]

\* unmarshall_error: the exception to raise, or None (NoExc) on a KeyError
unmarshall_error(error) ==
    IF error.t # "dict"
    THEN [exc |-> Exc("TypeError", <<<<"'NoneType' object has no attribute '__getitem__'">>>>),
          value |-> NoExc]
    ELSE IF {"code", "message", "data"} \subseteq error.has
            /\ error.code \in DOMAIN EXCEPTIONS
    THEN [exc |-> NoExc,
          value |-> Exc(EXCEPTIONS[error.code],
                        <<FormatMessage(error.message, error.data)>>)]
    ELSE [exc |-> NoExc, value |-> NoExc]

ResponseFailure(e) == [exc |-> e, response |-> NoDoc, result |-> PyNone]

unmarshall_response(data) ==
    LET dec == decode(data)
        response == dec.value
    IN  IF dec.exc # NoExc THEN ResponseFailure(dec.exc)
        ELSE IF response.t # "dict"
        THEN ResponseFailure(Exc("TypeError", <<<<"indices must be integers">>>>))
        ELSE IF "jsonrpc" \notin response.has
        THEN ResponseFailure(Exc("InvalidResponseError",
                                 <<<<"No \"jsonrpc\" member in response">>>>))
        ELSE IF ~PyEq(response.jsonrpc, PyStr(<<"2.0">>))
        THEN ResponseFailure(Exc("InvalidResponseError",
                                 <<<<"Only JSON-RPC 2.0 supported">>>>))
        ELSE IF "id" \notin response.has
        THEN ResponseFailure(Exc("InvalidResponseError",
                                 <<<<"No \"id\" member found in response">>>>))
        ELSE IF "error" \in response.has
        THEN LET ue == unmarshall_error(response.error)
             IN  IF ue.exc # NoExc THEN ResponseFailure(ue.exc)
                 ELSE IF ue.value = NoExc
                 THEN ResponseFailure(Exc("TypeError",
                          <<<<"exceptions must be old-style classes or derived from BaseException, not NoneType">>>>))
                 ELSE ResponseFailure(ue.value)
        ELSE IF "result" \in response.has
        THEN [exc |-> NoExc, response |-> response, result |-> response.result]
        ELSE ResponseFailure(Exc("InvalidResponseError",
                 <<<<"No \"result\" or \"error\" member found in response">>>>))


\* ---------------------------------------------------- registered functions
\* The functions a server registers: the two of jsonrpc.py's entry point
\* (the builtin pow and lambda x, y: x + y), a function whose body raises
\* (def fail(): raise ValueError('boom')) and one that takes any named
\* arguments (def count(**kwargs): return len(kwargs)).
Functions == {"pow", "add", "fail", "count"}

\* function.__name__
NameOf(function) == IF function = "add" THEN <<"<lambda>">> ELSE <<function>>

Returned(v) == [exc |-> NoExc, result |-> v]
Raised(type, text) == [exc |-> Exc(type, <<text>>), result |-> PyNone]

RECURSIVE Power(_, _)
Power(x, y) == IF y <= 0 THEN 1 ELSE x * Power(x, y - 1)

\* x + y
Plus(x, y) ==
    CASE x.t = "int" /\ y.t = "int" -> Returned(PyInt(x.n + y.n))
      [] IsString(x) /\ IsString(y) ->
            Returned([t |-> IF x.t = "str" /\ y.t = "str" THEN "str" ELSE "unicode",
                      n |-> 0, s |-> x.s \o y.s])
      [] OTHER -> Raised("TypeError", <<"unsupported operand type(s) for +">>)

\* Whether the call binds: the arguments match the function's parameters.
\* lambda x, y; the builtin pow(x, y[, z]), which takes no named arguments;
\* fail(); count(**kwargs).
Binds(function, args, kwargs) ==
    LET keys == DOMAIN kwargs
    IN  CASE function = "add" ->
                /\ Len(args) <= 2
                /\ keys \subseteq {"x", "y"}
                /\ ~(Len(args) >= 1 /\ "x" \in keys)
                /\ ~(Len(args) >= 2 /\ "y" \in keys)
                /\ (Len(args) >= 1 \/ "x" \in keys)
                /\ (Len(args) >= 2 \/ "y" \in keys)
          [] function = "pow" -> keys = {} /\ Len(args) \in {2, 3}
          [] function = "fail" -> keys = {} /\ Len(args) = 0
          [] OTHER -> Len(args) = 0

\* The body of the function on arguments that bind.
Body(function, args, kwargs) ==
    CASE function = "add" ->
            Plus(IF Len(args) >= 1 THEN args[1] ELSE kwargs["x"],
                 IF Len(args) >= 2 THEN args[2] ELSE kwargs["y"])
      [] function = "pow" ->
            IF \E i \in 1..Len(args) : args[i].t # "int"
            THEN Raised("TypeError", <<"unsupported operand type(s) for pow()">>)
            ELSE IF Len(args) = 2
            THEN Returned(PyInt(Power(args[1].n, args[2].n)))
            ELSE IF args[3].n = 0
            THEN Raised("ValueError", <<"pow() 3rd argument cannot be 0">>)
            ELSE Returned(PyInt(Power(args[1].n, args[2].n) % args[3].n))
      [] function = "fail" -> Raised("ValueError", <<"boom">>)
      [] OTHER -> Returned(PyInt(Cardinality(DOMAIN kwargs)))

\* func(*args, **kwargs): a call that does not bind raises TypeError
Invoke(function, args, kwargs) ==
    IF Binds(function, args, kwargs)
    THEN Body(function, args, kwargs)
    ELSE Raised("TypeError", <<"wrong number or names of arguments">>)

\* ------------------------------------------------------------- Dispatcher
\* The exception the lookup's except clause ends with: it evaluates
\* rpc.MethodNotFoundError in rpc.py, where no name rpc is bound.
LookupFailure(method) ==
    Exc("NameError", <<<<"global name 'rpc' is not defined">>>>)

\* The except clauses around the call: TypeError first, then Exception.
Reclassify(e) ==
    IF e.type = "TypeError"
    THEN Exc("InvalidParamsError", <<StrOf(e)>>)
    ELSE Exc("InternalError", <<StrOf(e)>>)

\* Dispatcher.dispatch(method, *args, **kwargs); registry is self.funcs
dispatch(registry, method, args, kwargs) ==
    IF method.s \notin DOMAIN registry
    THEN [exc |-> LookupFailure(method), result |-> PyNone]
    ELSE LET r == Invoke(registry[method.s], args, kwargs)
         IN  IF r.exc = NoExc THEN r
             ELSE [exc |-> Reclassify(r.exc), result |-> PyNone]


\* a register_function that forgets every other name
register_function_drops_others(registry, function, name) ==
    LET key == IF name = <<>> THEN NameOf(function) ELSE name
    IN  [k \in {key} |-> function]

\* Dispatcher.register_function(function, name=None): name or __name__
register_function(registry, function, name) ==
    LET key == IF name = <<>> THEN NameOf(function) ELSE name
    IN  [k \in DOMAIN registry \cup {key} |->
            IF k = key THEN function ELSE registry[k]]

\* ------------------------------------------------------------------ util
\* socket_read: the first recv of a closed, silent peer returns nothing and
\* socket_recv raises socket.error; otherwise all the bytes sent.
socket_read(bytes) ==
    IF bytes.kind = "empty"
    THEN [exc |-> Exc("socket.error", <<>>), data |-> NoBytes]
    ELSE [exc |-> NoExc, data |-> bytes]

\* open_socket when its with block is left: the generator runs sock.close()
\* after the yield when the block ended normally; an exception of the block
\* is raised at the yield and leaves the generator before the close.
open_socket_exit(raised) == IF raised THEN "open" ELSE "closed"

\* sock.recv on a connection whose peer has written nothing and has not
\* closed does not return
Blocks(bytes) == bytes.kind = "silent"

\* ------------------------------------------------------ TCPRequestHandler
\* except Error as e
Caught(e) == IsError(e)

IdleHandler ==
    [pc |-> "idle", read |-> FALSE, abort |-> NoExc, request |-> NoDoc,
     result |-> PyNone, error |-> NoExc, marshalled |-> FALSE, none |-> FALSE,
     response |-> NoBytes, sent |-> FALSE]

\* What the try block of handle() ends with: the failure of
\* unmarshall_request, the TypeError of *args on params that are no sequence,
\* or the failure of dispatch; NoExc when the call returned.
TryOutcome(um, d) ==
    IF um.exc # NoExc THEN um.exc
    ELSE IF um.args.t \notin {"tuple", "list"}
    THEN Exc("TypeError", <<<<"argument after * must be a sequence">>>>)
    ELSE d.exc

\* handle() left by an exception that except Error does not catch
Propagated(request, raised, errors) ==
    [frame |-> [IdleHandler EXCEPT !.pc = "done", !.read = TRUE,
                                    !.abort = raised, !.request = request],
     table |-> errors]

\* handle() after marshall_response: the send happens iff it returned bytes
Responded(request, result, raised, mr) ==
    [frame |-> [pc |-> "done", read |-> TRUE, abort |-> mr.exc,
                request |-> request, result |-> result, error |-> raised,
                marshalled |-> TRUE, none |-> mr.none, response |-> mr.data,
                sent |-> ~mr.none /\ mr.exc = NoExc],
     table |-> mr.table]

\* handle() after the try block, with its locals request, result and error
AfterTry(request, result, raised, errors) ==
    IF raised # NoExc /\ ~Caught(raised)
    THEN Propagated(request, raised, errors)
    ELSE Responded(request, result, raised,
                   marshall_response(request, result, raised, errors))

\* handle() after dispatch returned or raised d
AfterDispatch(um, d, errors) ==
    AfterTry(IF um.exc = NoExc THEN um.request ELSE NoDoc,
             IF TryOutcome(um, d) = NoExc THEN d.result ELSE PyNone,
             TryOutcome(um, d), errors)

\* handle() after unmarshall_request returned or raised um
AfterUnmarshall(um, registry, errors) ==
    AfterDispatch(um, dispatch(registry, um.method, um.args.items, um.kwargs.m),
                  errors)

\* handle(), from the bytes socket_read returned to the send: the handler's
\* locals when it ends, the exception it ends with (abort) and the table.
handle(data, registry, errors) ==
    AfterUnmarshall(unmarshall_request(data), registry, errors)

\* ------------------------------------------------------------ input sets
NoName == <<>>
Registrations ==
    {<<"pow", NoName>>, <<"add", <<"add">>>>, <<"fail", NoName>>,
     <<"count", NoName>>, <<"add", <<"pow">>>>}

CallNames == {<<"add">>, <<"pow">>, <<"sub">>, <<"fail">>, <<"count">>}

ArgVals == {PyInt(2), PyInt(3)}

SeqsUpTo(S, n) == UNION {[1..k -> S] : k \in 0..n}
PosArgs == SeqsUpTo(ArgVals, MaxArgs)

KwArgs ==
    {EmptyMap,
     [k \in {"x", "y"} |-> IF k = "x" THEN PyInt(2) ELSE PyInt(3)],
     [k \in {"x", "y"} |-> IF k = "x" THEN PyInt(2) ELSE PyStr(<<"a">>)],
     [k \in NonAsciiNames |-> PyInt(2)]}

\* ------------------------------------------------------------------ state
VARIABLES
    funcs,      \* Dispatcher.funcs of the server
    serving,    \* serve_forever has been entered
    ERRORS,     \* the module-level ERRORS table of jsonrpc.py
    ncalls,     \* connections made so far
    client,     \* the frame of the client's call
    c2s,        \* the bytes the client put on the connection
    s2c,        \* the bytes the server put on the connection
    conn,       \* "closed", "open" (accepted, not yet handled) or "served"
    handler,    \* the frame of the request handler for the connection
    backlog,    \* the bytes of the connections waiting in the listen queue
    probe       \* the last direct call of a protocol function: op, in, out

vars == <<funcs, serving, ERRORS, ncalls, client, c2s, s2c, conn, handler,
          backlog, probe>>

\* the state of the server and its connection
system == <<funcs, serving, client, c2s, s2c, conn, handler, backlog>>

NoProbe == [op |-> "idle", in |-> <<>>, out |-> <<>>]

\* sock is the socket open_socket made for the call ("none" before it is
\* made), opens the number of sockets the call has connected
IdleClient ==
    [pc |-> "idle", origin |-> "proxy", name |-> <<>>, args |-> <<>>,
     kwargs |-> EmptyMap, exc |-> NoExc, result |-> PyNone,
     sock |-> "none", opens |-> 0]

Init ==
    /\ funcs = EmptyMap
    /\ serving = FALSE
    /\ ERRORS = ERRORS_initial
    /\ ncalls = 0
    /\ client = IdleClient
    /\ c2s = NoBytes
    /\ s2c = NoBytes
    /\ conn = "closed"
    /\ handler = IdleHandler
    /\ backlog = <<>>
    /\ probe = NoProbe


\* What a client that is not the proxy may write: any bytes.
RawVersions == {JStr(<<"2.0">>), JStr(<<"1.0">>)}
RawMethods == {JStr(<<"add">>), JStr(<<"fail">>), JNum(5)}
RawParams ==
    {JArray(<<JNum(2), JNum(3)>>),
     JObject([k \in {"x", "y"} |-> IF k = "x" THEN JNum(2) ELSE JNum(3)]),
     JScalarParams(JNum(5))}
RawIds == {JNum(7), JNull}

RawDoc(has, v, m, p, i) ==
    [NoJDoc EXCEPT !.has = has,
                   !.jsonrpc = IF "jsonrpc" \in has THEN v ELSE JNull,
                   !.method = IF "method" \in has THEN m ELSE JNull,
                   !.params = IF "params" \in has THEN p ELSE JArray(<<>>),
                   !.id = IF "id" \in has THEN i ELSE JNull]

RawRequests ==
    {RawDoc(has, v, m, p, i) :
        has \in SUBSET {"jsonrpc", "method", "params", "id"},
        v \in RawVersions, m \in RawMethods, p \in RawParams, i \in RawIds}

RawBytes ==
    {Malformed, JsonText([NoJDoc EXCEPT !.t = "other"])}
    \cup {JsonText(d) : d \in RawRequests}

\* What a client that connects while the server is occupied writes.
ArrivingBytes ==
    {JsonText(RawDoc({"jsonrpc", "method", "params", "id"}, JStr(<<"2.0">>),
                     JStr(<<"add">>), JArray(<<JNum(2), JNum(3)>>), JNum(7)))}

\* ---------------------------------------------------------------- actions
\* TCPServer.register_function, before the server serves
Register(function, name) ==
    /\ ~serving
    /\ funcs' = register_function(funcs, function, name)
    /\ UNCHANGED <<serving, ERRORS, ncalls, client, c2s, s2c, conn, handler, backlog, probe>>

\* s.serve_forever()
ServeForever ==
    /\ ~serving
    /\ serving' = TRUE
    /\ UNCHANGED <<funcs, ERRORS, ncalls, client, c2s, s2c, conn, handler, backlog, probe>>

\* ServerProxy.__remote_call up to the wait for the response: marshal the
\* request, open a connection, send.
RemoteCall(name, args, kwargs) ==
    /\ serving
    /\ client.pc = "idle"
    /\ ncalls < MaxCalls
    /\ LET mq == marshall_request(name, args, kwargs)
           frame == [IdleClient EXCEPT !.name = name, !.args = args,
                                       !.kwargs = kwargs]
       IN  IF mq.exc # NoExc
           THEN /\ client' = [frame EXCEPT !.pc = "done", !.exc = mq.exc]
                /\ UNCHANGED <<c2s, conn, ncalls, backlog, probe>>
           ELSE /\ client' = [frame EXCEPT !.pc = "waiting", !.sock = "open",
                                               !.opens = @ + 1]
                /\ c2s' = mq.data
                /\ conn' = "open"
                /\ ncalls' = ncalls + 1
    /\ UNCHANGED <<funcs, serving, ERRORS, s2c, handler, backlog, probe>>

\* A client other than the proxy connects and writes bytes of its own.
RawSend(bytes) ==
    /\ serving
    /\ client.pc = "idle"
    /\ ncalls < MaxCalls
    /\ client' = [IdleClient EXCEPT !.pc = "waiting", !.origin = "raw"]
    /\ c2s' = bytes
    /\ conn' = "open"
    /\ ncalls' = ncalls + 1
    /\ UNCHANGED <<funcs, serving, ERRORS, s2c, handler, backlog, probe>>

\* A client connects and closes without writing anything.
RawClose ==
    /\ serving
    /\ client.pc = "idle"
    /\ ncalls < MaxCalls
    /\ client' = [IdleClient EXCEPT !.pc = "done", !.origin = "raw"]
    /\ c2s' = NoBytes
    /\ conn' = "open"
    /\ ncalls' = ncalls + 1
    /\ UNCHANGED <<funcs, serving, ERRORS, s2c, handler, backlog, probe>>

\* A client connects, writes nothing and keeps the connection open.
RawStall ==
    /\ serving
    /\ client.pc = "idle"
    /\ ncalls < MaxCalls
    /\ client' = [IdleClient EXCEPT !.pc = "waiting", !.origin = "raw"]
    /\ c2s' = Silent
    /\ conn' = "open"
    /\ ncalls' = ncalls + 1
    /\ UNCHANGED <<funcs, serving, ERRORS, s2c, handler, backlog, probe>>

\* While the server is occupied with a connection, another client connects
\* and writes its request: the connection waits in the listen queue.
Arrive(bytes) ==
    /\ serving
    /\ conn # "closed"
    /\ ncalls < MaxCalls
    /\ backlog' = Append(backlog, bytes)
    /\ ncalls' = ncalls + 1
    /\ UNCHANGED <<funcs, serving, ERRORS, client, c2s, s2c, conn, handler, probe>>

\* serve_forever is back in its loop and takes the next connection of the
\* listen queue; it does so only after the handler of the connection before
\* has returned, since TCPServer runs handle() in the loop itself.
Accept ==
    /\ serving
    /\ conn = "closed"
    /\ client.pc = "idle"
    /\ backlog # <<>>
    /\ client' = [IdleClient EXCEPT !.pc = "waiting", !.origin = "raw"]
    /\ c2s' = Head(backlog)
    /\ backlog' = Tail(backlog)
    /\ conn' = "open"
    /\ UNCHANGED <<funcs, serving, ERRORS, ncalls, s2c, handler, probe>>

\* The server accepts the connection and runs TCPRequestHandler.handle to
\* its end; the server then closes the connection.
Handle ==
    /\ conn = "open"
    /\ ~Blocks(c2s)
    /\ \E rd \in {socket_read(c2s)} :
          IF rd.exc # NoExc
          THEN /\ handler' = [IdleHandler EXCEPT !.pc = "done", !.abort = rd.exc]
               /\ s2c' = NoBytes
               /\ UNCHANGED ERRORS
          ELSE \E h \in {handle(rd.data, funcs, ERRORS)} :
                  /\ handler' = h.frame
                  /\ s2c' = IF h.frame.sent THEN h.frame.response ELSE NoBytes
                  /\ ERRORS' = h.table
    /\ conn' = "served"
    /\ UNCHANGED <<funcs, serving, ncalls, client, c2s, backlog, probe>>

\* The server accepts the connection of a peer that stays silent: handle()
\* blocks in the first recv of socket_read and does not return.
HandleBlocks ==
    /\ conn = "open"
    /\ Blocks(c2s)
    /\ handler' = [IdleHandler EXCEPT !.pc = "blocked"]
    /\ conn' = "handling"
    /\ UNCHANGED <<funcs, serving, ERRORS, ncalls, client, c2s, s2c, backlog, probe>>

\* The rest of ServerProxy.__remote_call: socket_read of the response, then
\* unmarshall_response.
ReceiveResponse ==
    /\ client.pc = "waiting"
    /\ client.origin = "proxy"
    /\ conn = "served"
    /\ LET rd == socket_read(s2c)
           ur == unmarshall_response(rd.data)
       IN  client' = IF rd.exc # NoExc
                     THEN [client EXCEPT !.pc = "done", !.exc = rd.exc,
                                         !.sock = open_socket_exit(TRUE)]
                     ELSE IF rd.data.kind = "empty"
                     THEN [client EXCEPT !.pc = "done",
                                         !.sock = open_socket_exit(FALSE)]
                     ELSE [client EXCEPT !.pc = "done", !.exc = ur.exc,
                                         !.result = ur.result,
                                         !.sock = open_socket_exit(FALSE)]
    /\ UNCHANGED <<funcs, serving, ERRORS, ncalls, c2s, s2c, conn, handler, backlog, probe>>

\* The other client reads what the server sent, or sees the close.
RawReceive ==
    /\ client.pc = "waiting"
    /\ client.origin = "raw"
    /\ conn = "served"
    /\ client' = [client EXCEPT !.pc = "done"]
    /\ UNCHANGED <<funcs, serving, ERRORS, ncalls, c2s, s2c, conn, handler, backlog, probe>>

\* The call is over and its connection gone; the next call starts afresh.
Close ==
    /\ client.pc = "done"
    /\ conn \in {"closed", "served"}
    /\ client' = IdleClient
    /\ c2s' = NoBytes
    /\ s2c' = NoBytes
    /\ conn' = "closed"
    /\ handler' = IdleHandler
    /\ UNCHANGED <<funcs, serving, ERRORS, ncalls, backlog, probe>>

Next ==
    \/ \E r \in Registrations : Register(r[1], r[2])
    \/ ServeForever
    \/ \E name \in CallNames, args \in PosArgs, kwargs \in KwArgs :
            RemoteCall(name, args, kwargs)
    \/ \E bytes \in RawBytes : RawSend(bytes)
    \/ RawClose
    \/ RawStall
    \/ \E bytes \in ArrivingBytes : Arrive(bytes)
    \/ Accept
    \/ Handle
    \/ HandleBlocks
    \/ ReceiveResponse
    \/ RawReceive
    \/ Close

Spec == Init /\ [][Next]_vars


\* ------------------------------------------- the protocol called directly
\* The protocol's functions are public: a caller may hand them any method,
\* arguments, request, result, error or bytes.
ProbeErrors ==
    {NoExc}
    \cup {Exc(t, a) : t \in ErrorTypes \cup {"ValueError"},
                      a \in {<<>>, <<<<"boom">>>>}}
    \cup {Exc("ParseError", <<<<"line 1", NewLine, "line 2">>>>)}

ProbeResults == {PyInt(5), PyNone, PyObject, PyCircular}

\* requests as unmarshall_request returns them, None, and the empty dict
ProbeRequests ==
    {NoDoc, EmptyDict}
    \cup {DecDoc(d) : d \in {r \in RawRequests :
                                /\ {"jsonrpc", "method"} \subseteq r.has
                                /\ "params" \notin r.has
                                /\ r.jsonrpc = JStr(<<"2.0">>)
                                /\ r.method = JStr(<<"add">>)}}

\* What a server that is not this one may answer: any bytes.  The error
\* member is null or an object with some of code, message and data; the code
\* is one of the table or one the table does not hold.
RawCodes == DOMAIN EXCEPTIONS \cup {-32000}
RawErrorData == {NoData, SeqData(<<<<"boom">>>>)}

RawError(has, code, data) ==
    ErrDict(has,
            IF "code" \in has THEN code ELSE 0,
            IF "message" \in has THEN <<"Some message">> ELSE <<>>,
            IF "data" \in has THEN data ELSE NoData)

RawErrors ==
    {ErrNone}
    \cup {RawError(has, code, data) :
            has \in SUBSET {"code", "message", "data"},
            code \in RawCodes, data \in RawErrorData}

RawResponseDoc(has, v, i, r, e) ==
    [NoJDoc EXCEPT !.has = has,
                   !.jsonrpc = IF "jsonrpc" \in has THEN v ELSE JNull,
                   !.id = IF "id" \in has THEN i ELSE JNull,
                   !.result = IF "result" \in has THEN r ELSE JNull,
                   !.error = IF "error" \in has THEN e ELSE ErrNone]

RawResponses ==
    {RawResponseDoc(has, v, i, r, e) :
        has \in SUBSET {"jsonrpc", "id", "result", "error"},
        v \in RawVersions, i \in {JNum(0)}, r \in {JNum(5)},
        e \in RawErrors}

RawResponseBytes ==
    {Malformed, JsonText([NoJDoc EXCEPT !.t = "other"])}
    \cup {JsonText(d) : d \in RawResponses}

\* the arguments of a marshall_response that was not made
NoSent == [request |-> NoDoc, result |-> PyNone, error |-> NoExc]

NoCall == [given |-> FALSE, name |-> <<>>, args |-> <<>>, kwargs |-> EmptyMap]
TheCall(name, args, kwargs) ==
    [given |-> TRUE, name |-> name, args |-> args, kwargs |-> kwargs]

\* protocol.marshall_request(name, *args, **kwargs)
CallMarshallRequest(name, args, kwargs) ==
    /\ probe.op = "idle"
    /\ probe' = [op |-> "marshall_request",
                 in |-> TheCall(name, args, kwargs),
                 out |-> marshall_request(name, args, kwargs)]
    /\ UNCHANGED <<system, ERRORS, ncalls>>

\* protocol.unmarshall_request(data), on any bytes
CallUnmarshallRequest(bytes) ==
    /\ probe.op = "idle"
    /\ probe' = [op |-> "unmarshall_request",
                 in |-> [bytes |-> bytes, call |-> NoCall],
                 out |-> unmarshall_request(bytes)]
    /\ UNCHANGED <<system, ERRORS, ncalls>>

\* protocol.unmarshall_request on what marshall_request just returned
CallUnmarshallMarshalled ==
    /\ probe.op = "marshall_request"
    /\ probe.out.exc = NoExc
    /\ probe' = [op |-> "unmarshall_request",
                 in |-> [bytes |-> probe.out.data, call |-> probe.in],
                 out |-> unmarshall_request(probe.out.data)]
    /\ UNCHANGED <<system, ERRORS, ncalls>>

\* protocol.marshall_response(request, result, error)
CallMarshallResponse(request, result, error) ==
    /\ probe.op = "idle"
    /\ ncalls < MaxCalls
    /\ LET mr == marshall_response(request, result, error, ERRORS)
       IN  /\ probe' = [op |-> "marshall_response",
                        in |-> [request |-> request, result |-> result,
                                error |-> error, errors |-> ERRORS],
                        out |-> mr]
           /\ ERRORS' = mr.table
    /\ ncalls' = ncalls + 1
    /\ UNCHANGED system

\* protocol.unmarshall_response on what marshall_response just returned
CallUnmarshallMarshalledResponse ==
    /\ probe.op = "marshall_response"
    /\ ~probe.out.none
    /\ probe.out.exc = NoExc
    /\ probe' = [op |-> "unmarshall_response",
                 in |-> [bytes |-> probe.out.data, sent |-> probe.in],
                 out |-> unmarshall_response(probe.out.data)]
    /\ UNCHANGED <<system, ERRORS, ncalls>>

\* protocol.unmarshall_response(data), on any bytes
CallUnmarshallResponse(bytes) ==
    /\ probe.op = "idle"
    /\ probe' = [op |-> "unmarshall_response",
                 in |-> [bytes |-> bytes, sent |-> NoSent],
                 out |-> unmarshall_response(bytes)]
    /\ UNCHANGED <<system, ERRORS, ncalls>>

\* the caller is done with the value
Forget ==
    /\ probe.op # "idle"
    /\ probe' = NoProbe
    /\ UNCHANGED <<system, ERRORS, ncalls>>

NextProtocol ==
    \/ \E name \in CallNames, args \in PosArgs, kwargs \in KwArgs :
            CallMarshallRequest(name, args, kwargs)
    \/ \E bytes \in RawBytes : CallUnmarshallRequest(bytes)
    \/ CallUnmarshallMarshalled
    \/ \E request \in ProbeRequests, result \in ProbeResults, error \in ProbeErrors :
            CallMarshallResponse(request, result, error)
    \/ CallUnmarshallMarshalledResponse
    \/ \E bytes \in RawResponseBytes : CallUnmarshallResponse(bytes)
    \/ Forget

SpecProtocol == Init /\ [][NextProtocol]_vars


\* ================================================================ claims
\* the proxy's call went onto the wire and is over
ProxyCallDone ==
    /\ client.pc = "done"
    /\ client.origin = "proxy"
    /\ client.exc.type # "ProtocolError"

\* C1: whatever fails while the handler reads, unmarshals or dispatches a
\* request, the handler does not end by that failure: it goes on to call
\* marshall_response, with the failure as the error argument.
C1_EveryFailureIsMarshalled ==
    handler.pc = "done"
        => /\ handler.abort = NoExc
           /\ handler.marshalled
           /\ handler.none \/ handler.sent

\* C2: dispatch of a method that is not registered fails with
\* MethodNotFoundError carrying the name, and a call of the proxy to such a
\* method ends with MethodNotFoundError, whose message mentions the name.
C2_UnregisteredIsMethodNotFound ==
    (ProxyCallDone /\ client.name \notin DOMAIN funcs)
        => /\ dispatch(funcs, PyUni(client.name), client.args, client.kwargs).exc
                 = Exc("MethodNotFoundError", <<client.name>>)
           /\ client.exc.type = "MethodNotFoundError"
           /\ Contains(StrOf(client.exc), client.name)

\* C3: when the body of a registered function raises on arguments that
\* match its parameters, the client that made the call ends with
\* InternalError, whatever the type of the failure raised.
C3_BodyFailureIsInternalError ==
    (/\ ProxyCallDone
     /\ client.name \in DOMAIN funcs
     /\ \A k \in DOMAIN client.kwargs : IsAscii(k)
     /\ Binds(funcs[client.name], client.args, client.kwargs)
     /\ Body(funcs[client.name], client.args, client.kwargs).exc # NoExc)
        => client.exc.type = "InternalError"


\* C4: a call of the proxy to a registered function, with arguments the
\* function accepts and on which it returns a value, returns that value to
\* the caller.
C4_CallReturnsHandlerValue ==
    (/\ ProxyCallDone
     /\ client.name \in DOMAIN funcs
     /\ Binds(funcs[client.name], client.args, client.kwargs)
     /\ Body(funcs[client.name], client.args, client.kwargs).exc = NoExc)
        => /\ client.exc = NoExc
           /\ PyEq(client.result,
                   Body(funcs[client.name], client.args, client.kwargs).result)

\* a request was unmarshalled and it has no id
NotificationHandled ==
    /\ handler.pc = "done"
    /\ handler.request.t = "dict"
    /\ "id" \notin handler.request.has

\* C5: for a request that was unmarshalled and has no id, marshall_response
\* returns nothing, whatever result or error it is given, and the handler
\* writes no bytes to the connection.
C5_NotificationGetsNoBytes ==
    NotificationHandled
        => /\ ~handler.sent
           /\ s2c = NoBytes
           /\ handler.marshalled => handler.none

C5_Witness ==
    /\ NotificationHandled
    /\ handler.marshalled
    /\ handler.none
    /\ handler.error.type = "InternalError"

\* C6 as stated: the response the server writes has the id of the request
\* when the request was unmarshalled, and its id is null exactly when there
\* is no request because it could not be parsed or validated.
C6_IdNullExactlyWithoutRequest ==
    handler.sent
        => /\ handler.request.t = "dict"
                => handler.response.doc.id = EncVal(handler.request.id)
           /\ handler.response.doc.id = JNull <=> handler.request.t # "dict"

\* C6 as amended: the response the server writes has the id of the request
\* when the request was unmarshalled (null when that id is null), and id
\* null when there is no request.
C6_ResponseEchoesId ==
    handler.sent
        => /\ "id" \in handler.response.doc.has
           /\ handler.response.doc.id =
                 IF handler.request.t = "dict"
                 THEN EncVal(handler.request.id) ELSE JNull

C6_Witness ==
    /\ handler.sent
    /\ handler.request.t = "dict"
    /\ handler.request.id = PyInt(7)
    /\ handler.response.doc.id = JNum(7)

\* marshall_response was called directly and returned a response
ResponseBuilt ==
    /\ probe.op = "marshall_response"
    /\ ~probe.out.none
    /\ probe.out.exc = NoExc

\* C7: a response marshall_response returns has the version "2.0" and
\* exactly one of the members result and error: error when an error was
\* given, result otherwise.
C7_ExactlyOneOfResultAndError ==
    ResponseBuilt
        => LET doc == probe.out.data.doc
           IN  /\ probe.out.data.kind = "json"
               /\ "jsonrpc" \in doc.has
               /\ doc.jsonrpc = JStr(<<"2.0">>)
               /\ "error" \in doc.has <=> probe.in.error # NoExc
               /\ "result" \in doc.has <=> probe.in.error = NoExc

C7_Witness ==
    /\ ResponseBuilt
    /\ probe.in.error # NoExc
    /\ probe.in.result = PyInt(5)
    /\ "error" \in probe.out.data.doc.has
    /\ "result" \notin probe.out.data.doc.has

SameSeq(a, b) ==
    /\ Len(a) = Len(b)
    /\ \A i \in 1..Len(a) : PyEq(a[i], b[i])

SameMap(a, b) ==
    /\ DOMAIN a = DOMAIN b
    /\ \A k \in DOMAIN a : PyEq(a[k], b[k])

\* C8: unmarshall_request of what marshall_request returned for a method
\* and arguments that are all positional or all named gives the method and
\* the arguments back: positional ones as the same sequence with no named
\* ones, named ones as the same mapping with no positional ones.
C8_RequestRoundTrip ==
    (probe.op = "unmarshall_request" /\ probe.in.call.given)
        => LET call == probe.in.call
               out == probe.out
           IN  /\ out.exc = NoExc
               /\ IsString(out.method)
               /\ out.method.s = call.name
               /\ out.args.t \in {"tuple", "list"}
               /\ SameSeq(out.args.items, call.args)
               /\ SameMap(out.kwargs.m, call.kwargs)

\* C9: for each of the five kinds of the table, unmarshall_response of the
\* response marshall_response built from an error of the kind fails with an
\* error of the same kind whose message contains each detail text of the
\* original; the tables ERRORS and EXCEPTIONS are inverse to each other.
C9_ErrorRoundTrip ==
    /\ \A k \in DOMAIN ERRORS :
          /\ ERRORS[k].code \in DOMAIN EXCEPTIONS
          /\ EXCEPTIONS[ERRORS[k].code] = k
    /\ \A c \in DOMAIN EXCEPTIONS :
          /\ EXCEPTIONS[c] \in DOMAIN ERRORS
          /\ ERRORS[EXCEPTIONS[c]].code = c
    /\ (probe.op = "unmarshall_response"
        /\ probe.in.sent.error.type \in DOMAIN ERRORS)
          => /\ probe.out.exc.type = probe.in.sent.error.type
             /\ \A i \in 1..Len(probe.in.sent.error.args) :
                   Contains(StrOf(probe.out.exc), probe.in.sent.error.args[i])

\* C10: unmarshall_request fails with ParseError on bytes that cannot be
\* decoded, with InvalidRequestError on a decoded value without version
\* "2.0" or without a method that is a string, returns a request only with
\* version "2.0" and a string method, and fails with no other kind.
C10_OnlyParseOrInvalidRequest ==
    (probe.op = "unmarshall_request")
        => LET bytes == probe.in.bytes
               doc == bytes.doc
               wellFormed ==
                   /\ doc.t = "object"
                   /\ "jsonrpc" \in doc.has
                   /\ doc.jsonrpc = JStr(<<"2.0">>)
                   /\ "method" \in doc.has
                   /\ doc.method.t = "string"
           IN  /\ bytes.kind # "json" => probe.out.exc.type = "ParseError"
               /\ (bytes.kind = "json" /\ ~wellFormed)
                     => probe.out.exc.type = "InvalidRequestError"
               /\ probe.out.exc = NoExc => (bytes.kind = "json" /\ wellFormed)
               /\ probe.out.exc.type \in {"None", "ParseError", "InvalidRequestError"}

\* unmarshall_response was called on the JSON text of an object
ResponseUnmarshalled ==
    /\ probe.op = "unmarshall_response"
    /\ probe.in.bytes.kind = "json"
    /\ probe.in.bytes.doc.t = "object"

\* the response has the version "2.0" and an id
WellFormedResponse(doc) ==
    /\ "jsonrpc" \in doc.has
    /\ doc.jsonrpc = JStr(<<"2.0">>)
    /\ "id" \in doc.has

\* C11: for a response with version "2.0" and an id whose error member is
\* an object with a message and a code of the table, with or without a data
\* member, unmarshall_response fails with the kind the table maps the code
\* to.
C11_KnownCodeRaisesMappedKind ==
    ResponseUnmarshalled
        => LET doc == probe.in.bytes.doc
           IN  (/\ WellFormedResponse(doc)
                /\ "error" \in doc.has
                /\ doc.error.t = "dict"
                /\ {"code", "message"} \subseteq doc.error.has
                /\ doc.error.code \in DOMAIN EXCEPTIONS)
                  => probe.out.exc.type = EXCEPTIONS[doc.error.code]

ArgumentsMismatch ==
    /\ handler.pc = "done"
    /\ handler.request.t = "dict"
    /\ handler.request.method.s \in DOMAIN funcs
    /\ \E um \in {unmarshall_request(c2s)} :
          \/ um.args.t \notin {"tuple", "list"}
          \/ ~Binds(funcs[handler.request.method.s], um.args.items, um.kwargs.m)

\* C13: a request for a registered function whose arguments do not match
\* the function's parameters is reported as InvalidParamsError: the handler
\* ends with that error and, when the request has an id, sends a response
\* whose error has the code -32602.
C13_MismatchIsInvalidParams ==
    ArgumentsMismatch
        => /\ handler.abort = NoExc
           /\ handler.error.type = "InvalidParamsError"
           /\ "id" \in handler.request.has
                 => /\ handler.sent
                    /\ "error" \in handler.response.doc.has
                    /\ handler.response.doc.error.code = -32602

\* the handler of one connection is blocked and another connection waits
HungWithWaiting ==
    /\ handler.pc = "blocked"
    /\ backlog # <<>>

\* C14: while the handler of one connection is blocked for ever, a request
\* that arrived on another connection can be accepted by the server.
C14_HungHandlerBlocksNoOther ==
    HungWithWaiting => ENABLED Accept

\* C15: a request cycle of the server (read, unmarshal, dispatch, marshal,
\* write) changes nothing that connections share: the registry and the
\* error-code table are after the cycle what they were before it.
C15_RequestCycleChangesNoShared ==
    [][Handle => /\ funcs' = funcs
                 /\ ERRORS' = ERRORS]_vars

\* C16: a call of the proxy that went onto the wire has connected exactly
\* one socket and, when the call is over, that socket is closed, whether the
\* call returned a result, raised the error of the response or failed on
\* the transport.
C16_ConnectionClosedAfterCall ==
    ProxyCallDone
        => /\ client.opens = 1
           /\ client.sock = "closed"

\* marshall_request was called directly
RequestMarshalled == probe.op = "marshall_request"

\* C17: marshall_request given at least one positional and at least one
\* named argument fails with ProtocolError and returns no bytes; given only
\* positional, only named or no arguments it does not fail with
\* ProtocolError.
C17_BothKindsIsProtocolError ==
    RequestMarshalled
        => LET both == /\ Len(probe.in.args) > 0
                       /\ DOMAIN probe.in.kwargs # {}
           IN  /\ both => /\ probe.out.exc.type = "ProtocolError"
                          /\ probe.out.data = NoBytes
               /\ ~both => probe.out.exc.type # "ProtocolError"

C17_Witness ==
    /\ RequestMarshalled
    /\ Len(probe.in.args) > 0
    /\ DOMAIN probe.in.kwargs # {}
    /\ probe.out.exc.type = "ProtocolError"

\* the name a register call stores the function under
RegisteredName(function, name) ==
    IF name = NoName THEN NameOf(function) ELSE name

\* the handler unmarshalled a request for a registered function with params
\* that are an array or an object
Dispatched ==
    /\ handler.pc = "done"
    /\ handler.request.t = "dict"
    /\ handler.request.method.s \in DOMAIN funcs
    /\ handler.request.params.t \in {"tuple", "list", "dict"}

\* C18: a register call stores the function under the explicit name, or
\* under the function's own name when none is given, replaces what the name
\* held before and leaves every other name as it was; dispatch of a name
\* calls the function the registry holds under it: it returns what that
\* function returns and fails when that function fails.
C18_RegistryKeepsLatest ==
    /\ [][\A r \in Registrations :
            Register(r[1], r[2])
                => /\ DOMAIN funcs' = DOMAIN funcs \cup {RegisteredName(r[1], r[2])}
                   /\ funcs'[RegisteredName(r[1], r[2])] = r[1]
                   /\ \A k \in DOMAIN funcs \ {RegisteredName(r[1], r[2])} :
                         funcs'[k] = funcs[k]]_vars
    /\ [](Dispatched
            => \E um \in {unmarshall_request(c2s)} :
               \E r \in {Invoke(funcs[handler.request.method.s],
                                um.args.items, um.kwargs.m)} :
                  /\ r.exc = NoExc => /\ handler.error = NoExc
                                      /\ handler.result = r.result
                  /\ r.exc # NoExc => /\ handler.error # NoExc
                                      /\ StrOf(handler.error) = StrOf(r.exc))

C18_Witness ==
    /\ Dispatched
    /\ <<"pow">> \in DOMAIN funcs
    /\ funcs[<<"pow">>] = "add"
    /\ handler.request.method.s = <<"pow">>
    /\ handler.request.params.items = <<PyInt(2), PyInt(3)>>
    /\ handler.result = PyInt(5)

\* C19: encode fails with ParseError for a value the wire format has no
\* form for, decode fails with ParseError for bytes that are no JSON text,
\* and marshall_request and marshall_response fail on encoding with
\* ParseError alone.
C19_SerializerRaisesOnlyParseError ==
    /\ probe.op = "marshall_response"
          => /\ probe.out.exc.type \in {"None", "ParseError"}
             /\ (/\ ~probe.out.none
                 /\ probe.in.error = NoExc
                 /\ probe.in.result.t \in {"object", "circular"})
                   => probe.out.exc.type = "ParseError"
    /\ probe.op = "marshall_request"
          => probe.out.exc.type \in {"None", "ParseError", "ProtocolError"}
    /\ (probe.op \in {"unmarshall_request", "unmarshall_response"}
        /\ probe.in.bytes.kind # "json")
          => probe.out.exc.type = "ParseError"

\* C20: in a sequence of marshall_response calls made one after another,
\* the error member of each response has the code and the message of the
\* kind of the error given to that call, and as data that error's own args
\* (null when it has none), whatever data an earlier error left in the
\* table.
C20_ErrorDataIsOwn ==
    (ResponseBuilt /\ probe.in.error.type \in DOMAIN ERRORS_initial)
        => LET e == probe.out.data.doc.error
               k == probe.in.error.type
           IN  /\ "error" \in probe.out.data.doc.has
               /\ e.t = "dict"
               /\ e.has = {"code", "message", "data"}
               /\ e.code = ERRORS_initial[k].code
               /\ e.message = ERRORS_initial[k].message
               /\ e.data = IF Len(probe.in.error.args) = 0
                           THEN NoData ELSE SeqData(probe.in.error.args)

C20_Witness ==
    /\ ResponseBuilt
    /\ probe.in.error = Exc("InternalError", <<>>)
    /\ probe.in.errors["InternalError"].data = SeqData(<<<<"boom">>>>)
    /\ probe.out.data.doc.error.data = NoData

====
